---- MODULE Spec2Model ----
(***************************************************************************)
(* ADSIM activity ETL (src/main.py): an HTTP handler that pages a CRM API  *)
(* in 1-day windows over the last 90 days, flattens the records with       *)
(* pandas and appends them to a BigQuery table.                            *)
(*                                                                         *)
(* Python values are modelled structurally:                                *)
(*   - a nested mapping is a sequence of <<key, string>> pairs (a dict     *)
(*     keeps its insertion order);                                         *)
(*   - a field value / dataframe cell is [t, s, d]: t is the kind ("str",  *)
(*     "dict", "nan", "ts", "nat"), s the scalar text, d the nested        *)
(*     mapping;                                                            *)
(*   - a record is a sequence of <<key, value>> pairs;                     *)
(*   - a datetime is [day, sec, us] as in CPython's (days, seconds,        *)
(*     microseconds) representation.                                       *)
(***************************************************************************)
EXTENDS Integers, Sequences, FiniteSets, TLC

VARIABLES
    pc,            \* position of the handler: "idle", "loop", "load", "respond", "done", "raised"
    end_date,      \* main.py:80
    start_date,    \* main.py:81
    current_start, \* main.py:85, 99
    all_records,   \* main.py:83, 94
    df,            \* main.py:101
    load_result,   \* main.py:102
    response,      \* what the handler returned: [code, body]
    calls,         \* history: one entry per fetch_activities call of the invocation
    httpRequests,  \* history: number of requests.get calls (main.py:32)
    transformCalls,\* history: number of transform calls
    loadCalls,     \* history: number of load_to_bigquery calls
    bqClients,     \* history: number of bigquery.Client() constructions (main.py:71)
    bqJobs,        \* history: load jobs started on the warehouse (main.py:72)
    bqWaited,      \* history: job.result() calls that returned (main.py:73)
    bqOutputRows,  \* history: job.output_rows as the destination reported it (main.py:74)
    last_out,      \* history: the outcome of the latest fetch_activities call
    fetched,       \* history: the records the fetch calls returned, in call order
    error_resp,    \* history: the response whose failure ended the batch loop
    fetch_in,      \* input of the stand-alone fetch_activities call
    fetch_out      \* its outcome

vars == <<pc, end_date, start_date, current_start, all_records, df, load_result,
          response, calls, httpRequests, transformCalls, loadCalls, bqClients,
          bqJobs, bqWaited, bqOutputRows, last_out, fetched, error_resp, fetch_in, fetch_out>>

(***************************************************************************)
(* Bounds of the model.                                                    *)
(***************************************************************************)
MaxBodyLen == 4         \* tokens in a response body given to fetch_activities alone
MaxBatchBodyLen == 2    \* tokens in a response body inside the 90-batch loop
MaxTotalRecords == 2    \* records accumulated by one invocation
MaxRecs == 2            \* records given to transform alone

(***************************************************************************)
(* Program constants.                                                      *)
(***************************************************************************)
LookbackDays == 90      \* timedelta(days=90)
batch_size_days == 1
DefaultLimit == 100     \* limit=100
HttpOk == 200           \* response.status_code != 200
ServerError == 500      \* return jsonify(e.args[0]), 500
MicrosPerMilli == 1000  \* "%f"[:-3] keeps the first three of six digits

Url == "https://api.adsim.co/crm-r/api/v2/activity"
TableId == "databaseparanaiba.adsim_dataset.activity"

(***************************************************************************)
(* datetime / timedelta                                                    *)
(***************************************************************************)
DtLt(a, b) ==
    \/ a.day < b.day
    \/ a.day = b.day /\ a.sec < b.sec
    \/ a.day = b.day /\ a.sec = b.sec /\ a.us < b.us

DtLe(a, b) == a = b \/ DtLt(a, b)

DtMin(a, b) == IF DtLt(b, a) THEN b ELSE a

AddDays(dt, n) == [dt EXCEPT !.day = @ + n]

\* strftime("%Y-%m-%dT%H:%M:%S.%f")[:-3] + "Z": date and time of day to the
\* second, the microseconds cut to their first three digits, a literal Z.
IsoFormat(dt) ==
    [date |-> dt.day, hms |-> dt.sec, ms |-> dt.us \div MicrosPerMilli, suffix |-> "Z"]

\* Instants datetime.utcnow() may return.
NowChoices ==
    { [day |-> 20000, sec |-> 0, us |-> 0],
      [day |-> 20000, sec |-> 43200, us |-> 123456],
      [day |-> 20000, sec |-> 86399, us |-> 999999] }

NoDate == [day |-> 0, sec |-> 0, us |-> 0]

(***************************************************************************)
(* dict helpers (sequences of <<key, value>> pairs)                        *)
(***************************************************************************)
HasKey(d, k) == \E i \in 1..Len(d) : d[i][1] = k

Get(d, k) == d[CHOOSE i \in 1..Len(d) : d[i][1] = k][2]

Keys(d) == [i \in 1..Len(d) |-> d[i][1]]

InSeq(s, x) == \E i \in 1..Len(s) : s[i] = x

\* s followed by the elements of t it does not hold yet, in t's order
RECURSIVE AppendNew(_, _)
AppendNew(s, t) ==
    IF t = <<>> THEN s
    ELSE AppendNew(IF InSeq(s, Head(t)) THEN s ELSE Append(s, Head(t)), Tail(t))

\* keys of a list of dicts, in order of first appearance
RECURSIVE UnionKeys(_)
UnionKeys(ds) ==
    IF ds = <<>> THEN <<>>
    ELSE AppendNew(Keys(Head(ds)), UnionKeys(Tail(ds)))

Str(x) == [t |-> "str", s |-> x, d |-> <<>>]
Dict(m) == [t |-> "dict", s |-> "", d |-> m]
NaN == [t |-> "nan", s |-> "", d |-> <<>>]
NaT == [t |-> "nat", s |-> "", d |-> <<>>]
Timestamp(x) == [t |-> "ts", s |-> x, d |-> <<>>]

(***************************************************************************)
(* Response bodies.  A body is a sequence of tokens: "LF" is the newline,  *)
(* "WS" any other whitespace character (blank, tab, carriage return), an   *)
(* "OBJ..." token the text of one JSON object, "BAD" text that is no JSON. *)
(***************************************************************************)
ActivityA == << <<"id", Str("7")>>, <<"type", Dict(<< <<"id", "1">> >>)>> >>
ActivityB == << <<"startDate", Str("2024-05-01T10:00:00")>> >>

ObjTokens == {"OBJ_EMPTY", "OBJ_A", "OBJ_B"}
Tokens == {"LF", "WS", "BAD"} \cup ObjTokens

\* the Python value of a JSON object text
JsonObject(tok) ==
    CASE tok = "OBJ_EMPTY" -> <<>>
      [] tok = "OBJ_A" -> ActivityA
      [] tok = "OBJ_B" -> ActivityB

IsSpace(tok) == tok \in {"LF", "WS"}

RECURSIVE LStrip(_)
LStrip(s) == IF s # <<>> /\ IsSpace(Head(s)) THEN LStrip(Tail(s)) ELSE s

RECURSIVE RStrip(_)
RStrip(s) ==
    IF s # <<>> /\ IsSpace(s[Len(s)]) THEN RStrip(SubSeq(s, 1, Len(s) - 1)) ELSE s

\* str.strip()
Strip(s) == RStrip(LStrip(s))

\* str.split("\n"): "".split("\n") is [""]
RECURSIVE SplitLines(_, _)
SplitLines(s, cur) ==
    IF s = <<>> THEN <<cur>>
    ELSE IF Head(s) = "LF" THEN <<cur>> \o SplitLines(Tail(s), <<>>)
    ELSE SplitLines(Tail(s), Append(cur, Head(s)))

Split(s) == SplitLines(s, <<>>)

\* The comprehension without its "if line" filter.
NonEmpty_NoFilter(lines) == lines

\* [line for line in lines if line]
RECURSIVE NonEmpty(_)
NonEmpty(lines) ==
    IF lines = <<>> THEN <<>>
    ELSE IF Head(lines) = <<>> THEN NonEmpty(Tail(lines))
    ELSE <<Head(lines)>> \o NonEmpty(Tail(lines))

\* json.loads skips the whitespace around the document; what is left must be
\* exactly one JSON value
JsonValid(line) ==
    LET doc == Strip(line) IN Len(doc) = 1 /\ doc[1] \in ObjTokens

json_loads(line) == JsonObject(Strip(line)[1])

(***************************************************************************)
(* fetch_activities (main.py:18-42).  resp is what requests.get returned.  *)
(***************************************************************************)
RequestUrl(s_iso, e_iso, limit) ==
    [base |-> Url, start |-> s_iso, end |-> e_iso, ignoreDeleted |-> "true",
     limit |-> limit]

NoArgs == [type |-> "none"]

\* Only client and server error statuses treated as failures.
StatusIsError_From400(status_code) == status_code >= 400

\* main.py:33
StatusIsError(status_code) == status_code # HttpOk

\* main.py:34-38
FetchErrorPayload(status_code, url, text) ==
    [type |-> "dict",
     value |-> [status |-> "error",
                message |-> <<status_code, "Client Error for URL:", url>>,
                response |-> text]]

\* main.py:41
ParseLines(text) == NonEmpty(Split(Strip(text)))

fetch_activities(s_iso, e_iso, limit, resp) ==
    LET url == RequestUrl(s_iso, e_iso, limit)
        lines == ParseLines(resp.text)
    IN  IF StatusIsError(resp.status_code)
        THEN [ok |-> FALSE, exc |-> "ValueError", records |-> <<>>,
              args0 |-> FetchErrorPayload(resp.status_code, url, resp.text)]
        ELSE IF \E i \in 1..Len(lines) : ~JsonValid(lines[i])
        THEN [ok |-> FALSE, exc |-> "JSONDecodeError", records |-> <<>>,
              args0 |-> [type |-> "str", value |-> "Expecting value"]]
        ELSE [ok |-> TRUE, exc |-> "", records |-> [i \in 1..Len(lines) |-> json_loads(lines[i])],
              args0 |-> NoArgs]

RECURSIVE SeqsUpTo(_, _)
SeqsUpTo(S, n) ==
    IF n = 0 THEN {<<>>}
    ELSE LET shorter == SeqsUpTo(S, n - 1)
         IN  shorter \cup {Append(s, x) : s \in shorter, x \in S}

Statuses == {HttpOk, 204, 403, ServerError}

(***************************************************************************)
(* pandas.  A DataFrame over a RangeIndex is [nrows, columns, data]:       *)
(* columns the column labels in order, data[j][i] the cell of column j in  *)
(* row i.                                                                  *)
(***************************************************************************)
\* pd.DataFrame()
EmptyFrame == [nrows |-> 0, columns |-> <<>>, data |-> <<>>]

IsNonEmptyDict(r) == r # <<>>

\* A frame that keeps no row for a dict without keys.
DataFrame_DropsEmptyRows(rows) ==
    LET kept == SelectSeq(rows, IsNonEmptyDict)
        cols == UnionKeys(kept)
    IN  [nrows |-> Len(kept),
         columns |-> cols,
         data |-> [j \in 1..Len(cols) |->
                     [i \in 1..Len(kept) |->
                        IF HasKey(kept[i], cols[j]) THEN Get(kept[i], cols[j]) ELSE NaN]]]

\* pd.DataFrame(list of dicts): one row per dict, the columns are the keys in
\* order of first appearance, a missing key gives NaN
DataFrame(rows) ==
    LET cols == UnionKeys(rows)
    IN  [nrows |-> Len(rows),
         columns |-> cols,
         data |-> [j \in 1..Len(cols) |->
                     [i \in 1..Len(rows) |->
                        IF HasKey(rows[i], cols[j]) THEN Get(rows[i], cols[j]) ELSE NaN]]]

HasColumn(frame, col) == InSeq(frame.columns, col)

ColumnIndex(frame, col) == CHOOSE j \in 1..Len(frame.columns) : frame.columns[j] = col

\* df[col]
Column(frame, col) == frame.data[ColumnIndex(frame, col)]

\* len(df)
FrameLen(frame) == frame.nrows

\* df.empty: some axis has length 0
FrameEmpty(frame) == frame.nrows = 0 \/ Len(frame.columns) = 0

ValidDateTexts == {"2024-05-01T10:00:00"}

\* pd.to_datetime(x, errors="coerce") on one value
ToDatetimeValue(v) ==
    IF v.t = "str" /\ v.s \in ValidDateTexts THEN Timestamp(v.s)
    ELSE IF v.t = "ts" THEN v
    ELSE NaT

\* df[col] = pd.to_datetime(df[col], errors="coerce")
ToDatetime(frame, col) ==
    LET c == ColumnIndex(frame, col)
    IN  [frame EXCEPT !.data[c] = [i \in 1..frame.nrows |-> ToDatetimeValue(frame.data[c][i])]]

\* pandas' _simple_json_normalize on one element of the series: a mapping is
\* flattened, anything else (NaN for a missing field, a scalar) gives {}
NormaliseValue(v) ==
    IF v.t = "dict" THEN [k \in 1..Len(v.d) |-> <<v.d[k][1], Str(v.d[k][2])>>]
    ELSE <<>>

IsDictValue(v) == v.t = "dict"

\* A normalisation that skips the elements that are no mapping, so that the
\* rows after a record without the field move up.
json_normalize_SkipsMissing(series) ==
    LET kept == SelectSeq(series, IsDictValue)
        rows == [i \in 1..Len(kept) |->
                   [k \in 1..Len(kept[i].d) |-> <<kept[i].d[k][1], Str(kept[i].d[k][2])>>]]
        cols == UnionKeys(rows)
    IN  [nrows |-> Len(rows),
         columns |-> cols,
         data |-> [j \in 1..Len(cols) |->
                     [i \in 1..Len(rows) |->
                        IF HasKey(rows[i], cols[j]) THEN Get(rows[i], cols[j]) ELSE NaN]]]

\* pd.json_normalize(series): one row per element of the series
json_normalize(series) ==
    DataFrame([i \in 1..Len(series) |-> NormaliseValue(series[i])])

\* nested_df.columns = [f"{col}_{subcol}" for subcol in nested_df.columns]
PrefixColumns(frame, col) ==
    [frame EXCEPT !.columns = [j \in 1..Len(frame.columns) |-> col \o "_" \o frame.columns[j]]]

RemoveAt(s, j) == SubSeq(s, 1, j - 1) \o SubSeq(s, j + 1, Len(s))

\* df.drop(columns=[col])
DropColumn(frame, col) ==
    LET c == ColumnIndex(frame, col)
    IN  [frame EXCEPT !.columns = RemoveAt(frame.columns, c), !.data = RemoveAt(frame.data, c)]

Max(a, b) == IF a > b THEN a ELSE b

PadColumn(column, n) == [i \in 1..n |-> IF i <= Len(column) THEN column[i] ELSE NaN]

\* pd.concat([a, b], axis=1) of two frames over RangeIndexes: the rows are the
\* union of the two indexes, a frame without a label gives NaN there
ConcatColumns(a, b) ==
    LET n == Max(a.nrows, b.nrows)
    IN  [nrows |-> n,
         columns |-> a.columns \o b.columns,
         data |-> [j \in 1..Len(a.columns) |-> PadColumn(a.data[j], n)]
                  \o [j \in 1..Len(b.columns) |-> PadColumn(b.data[j], n)]]

(***************************************************************************)
(* transform (main.py:44-65)                                               *)
(***************************************************************************)
date_cols == <<"startDate", "endDate", "doneDate">>
nested_cols == <<"type", "organization", "person", "user", "company">>

\* main.py:53-55
RECURSIVE ConvertDates(_, _)
ConvertDates(frame, cols) ==
    IF cols = <<>> THEN frame
    ELSE ConvertDates(IF HasColumn(frame, Head(cols)) THEN ToDatetime(frame, Head(cols))
                      ELSE frame,
                      Tail(cols))

\* main.py:61-63
ExpandColumn(frame, col) ==
    ConcatColumns(DropColumn(frame, col),
                  PrefixColumns(json_normalize(Column(frame, col)), col))

\* main.py:59-63
RECURSIVE ExpandNested(_, _)
ExpandNested(frame, cols) ==
    IF cols = <<>> THEN frame
    ELSE ExpandNested(IF HasColumn(frame, Head(cols)) THEN ExpandColumn(frame, Head(cols))
                      ELSE frame,
                      Tail(cols))

transform(records) ==
    IF records = <<>> THEN EmptyFrame
    ELSE ExpandNested(ConvertDates(DataFrame(records), date_cols), nested_cols)

(***************************************************************************)
(* load_to_bigquery (main.py:67-74)                                        *)
(***************************************************************************)
NoDataMessage == <<"Sem dados para carregar">>

LoadedMessage(rows, table_id) == <<"Carregado", rows, "linhas na tabela", table_id>>

\* A test of the row count alone.
LoadSkipped_NoRows(frame) == frame.nrows = 0

\* main.py:69
LoadSkipped(frame) == FrameEmpty(frame)

(***************************************************************************)
(* adsim_activity_etl (main.py:78-104)                                     *)
(***************************************************************************)
\* flask.jsonify: a dict becomes a JSON object, a str a JSON string
jsonify(v) ==
    [json |-> IF v.type = "dict" THEN "object" ELSE "string", value |-> v.value]

NoResponse == [code |-> 0, body |-> [json |-> "none"]]

\* A loop that stops one batch early.
LoopCondition_StopsEarly(cs, ed) == DtLt(AddDays(cs, batch_size_days), ed)

\* main.py:87
LoopCondition(cs, ed) == DtLt(cs, ed)

\* A batch of two days instead of one.
CurrentEnd_TwoDays(cs, ed) == DtMin(AddDays(cs, batch_size_days + 1), ed)

\* main.py:88
CurrentEnd(cs, ed) == DtMin(AddDays(cs, batch_size_days), ed)

\* main.py:99
NextStart(ce) == ce

\* main.py:96: json.JSONDecodeError is a subclass of ValueError
IsValueError(exc) == exc \in {"ValueError", "JSONDecodeError"}

\* The error's text instead of its payload.
ErrorResponse_TextOnly(args0) ==
    [code |-> ServerError, body |-> jsonify([type |-> "str", value |-> "fetch failed"])]

\* main.py:97
ErrorResponse(args0) == [code |-> ServerError, body |-> jsonify(args0)]

\* The destination's row count reported as records_loaded.
SuccessResponse_OutputRows(frame, message) ==
    [code |-> HttpOk,
     body |-> jsonify([type |-> "dict",
                       value |-> [status |-> "success",
                                  records_loaded |-> IF message = NoDataMessage THEN 0
                                                     ELSE message[2],
                                  message |-> message]])]

\* main.py:104
SuccessResponse(frame, message) ==
    [code |-> HttpOk,
     body |-> jsonify([type |-> "dict",
                       value |-> [status |-> "success",
                                  records_loaded |-> FrameLen(frame),
                                  message |-> message]])]

\* What the CRM API may answer to one batch request.
ErrorTexts == {<<>>, <<"BAD">>}
BatchTokens == {"LF", "BAD", "OBJ_EMPTY", "OBJ_A"}
BatchResponses ==
    [status_code : {HttpOk}, text : SeqsUpTo(BatchTokens, MaxBatchBodyLen)]
    \cup [status_code : Statuses \ {HttpOk}, text : ErrorTexts]

\* main.py:80-85
Invoke ==
    /\ pc = "idle"
    /\ \E now \in NowChoices :
        /\ end_date' = now
        /\ start_date' = AddDays(now, 0 - LookbackDays)
        /\ current_start' = AddDays(now, 0 - LookbackDays)
    /\ all_records' = <<>>
    /\ pc' = "loop"
    /\ UNCHANGED <<df, load_result, response, calls, httpRequests, transformCalls,
                   loadCalls, bqClients, bqJobs, bqWaited, bqOutputRows, last_out, fetched,
                   error_resp, fetch_in, fetch_out>>

\* main.py:87-99: one iteration of the batch loop
FetchBatch ==
    /\ pc = "loop"
    /\ LoopCondition(current_start, end_date)
    /\ \E resp \in BatchResponses :
        LET current_end == CurrentEnd(current_start, end_date)
            start_iso == IsoFormat(current_start)
            end_iso == IsoFormat(current_end)
            out == fetch_activities(start_iso, end_iso, DefaultLimit, resp)
        IN  /\ out.ok => Len(all_records) + Len(out.records) <= MaxTotalRecords
            /\ calls' = Append(calls, [start |-> current_start, end |-> current_end,
                                       start_iso |-> start_iso, end_iso |-> end_iso,
                                       status |-> resp.status_code])
            /\ last_out' = out
            /\ fetched' = fetched \o out.records
            /\ httpRequests' = httpRequests + 1
            /\ IF out.ok
               THEN /\ all_records' = all_records \o out.records
                    /\ current_start' = NextStart(current_end)
                    /\ pc' = "loop"
                    /\ UNCHANGED <<response, error_resp>>
               ELSE /\ IsValueError(out.exc)
                    /\ response' = ErrorResponse(out.args0)
                    /\ error_resp' = resp
                    /\ pc' = "done"
                    /\ UNCHANGED <<all_records, current_start>>
    /\ UNCHANGED <<end_date, start_date, df, load_result, transformCalls, loadCalls,
                   bqClients, bqJobs, bqWaited, bqOutputRows, fetch_in, fetch_out>>

\* main.py:101
TransformStep ==
    /\ pc = "loop"
    /\ ~LoopCondition(current_start, end_date)
    /\ df' = transform(all_records)
    /\ transformCalls' = transformCalls + 1
    /\ pc' = "load"
    /\ UNCHANGED <<end_date, start_date, current_start, all_records, load_result, response,
                   calls, httpRequests, loadCalls, bqClients, bqJobs, bqWaited,
                   bqOutputRows, last_out, fetched, error_resp, fetch_in, fetch_out>>

\* main.py:102 with main.py:69-70: nothing to load
LoadNothing ==
    /\ pc = "load"
    /\ LoadSkipped(df)
    /\ loadCalls' = loadCalls + 1
    /\ load_result' = NoDataMessage
    /\ pc' = "respond"
    /\ UNCHANGED <<end_date, start_date, current_start, all_records, df, response, calls,
                   httpRequests, transformCalls, bqClients, bqJobs, bqWaited, bqOutputRows,
                   last_out, fetched, error_resp, fetch_in, fetch_out>>

\* main.py:102 with main.py:71-74: the load job finishes; the destination
\* reports how many rows it wrote
LoadJobDone ==
    /\ pc = "load"
    /\ ~LoadSkipped(df)
    /\ loadCalls' = loadCalls + 1
    /\ bqClients' = bqClients + 1
    /\ bqJobs' = bqJobs + 1
    /\ bqWaited' = bqWaited + 1
    /\ \E output_rows \in 0..FrameLen(df) :
        /\ bqOutputRows' = Append(bqOutputRows, output_rows)
        /\ load_result' = LoadedMessage(output_rows, TableId)
    /\ pc' = "respond"
    /\ UNCHANGED <<end_date, start_date, current_start, all_records, df, response, calls,
                   httpRequests, transformCalls, last_out, fetched, error_resp, fetch_in,
                   fetch_out>>

\* main.py:102 with main.py:71-73: job.result() raises; nothing in the handler
\* catches it
LoadJobFails ==
    /\ pc = "load"
    /\ ~LoadSkipped(df)
    /\ loadCalls' = loadCalls + 1
    /\ bqClients' = bqClients + 1
    /\ bqJobs' = bqJobs + 1
    /\ pc' = "raised"
    /\ UNCHANGED <<end_date, start_date, current_start, all_records, df, load_result,
                   response, calls, httpRequests, transformCalls, bqWaited, bqOutputRows,
                   last_out, fetched, error_resp, fetch_in, fetch_out>>

\* main.py:104
Respond ==
    /\ pc = "respond"
    /\ response' = SuccessResponse(df, load_result)
    /\ pc' = "done"
    /\ UNCHANGED <<end_date, start_date, current_start, all_records, df, load_result, calls,
                   httpRequests, transformCalls, loadCalls, bqClients, bqJobs, bqWaited,
                   bqOutputRows, last_out, fetched, error_resp, fetch_in, fetch_out>>

NoFetch == [status_code |-> 0, text |-> <<>>]
NoOutcome == [ok |-> FALSE, exc |-> "none", records |-> <<>>, args0 |-> NoArgs]

\* The state of the process once the module is imported (ADSIM_BEARER is set,
\* main.py:14-16) and before a request arrives.
Init ==
    /\ pc = "idle"
    /\ end_date = NoDate
    /\ start_date = NoDate
    /\ current_start = NoDate
    /\ all_records = <<>>
    /\ df = EmptyFrame
    /\ load_result = <<>>
    /\ response = NoResponse
    /\ calls = <<>>
    /\ httpRequests = 0
    /\ transformCalls = 0
    /\ loadCalls = 0
    /\ bqClients = 0
    /\ bqJobs = 0
    /\ bqWaited = 0
    /\ bqOutputRows = <<>>
    /\ last_out = NoOutcome
    /\ fetched = <<>>
    /\ error_resp = NoFetch
    /\ fetch_in = NoFetch
    /\ fetch_out = NoOutcome

Next ==
    \/ Invoke
    \/ FetchBatch
    \/ TransformStep
    \/ LoadNothing
    \/ LoadJobDone
    \/ LoadJobFails
    \/ Respond

Spec == Init /\ [][Next]_vars

(***************************************************************************)
(* fetch_activities on its own: one call on any response.                  *)
(***************************************************************************)
FetchWindowEnd == [day |-> 20000, sec |-> 43200, us |-> 123456]

FetchInputs == [status_code : Statuses, text : SeqsUpTo(Tokens, MaxBodyLen)]

InitFetch ==
    /\ pc = "fetch"
    /\ fetch_in \in FetchInputs
    /\ end_date = NoDate
    /\ start_date = NoDate
    /\ current_start = NoDate
    /\ all_records = <<>>
    /\ df = EmptyFrame
    /\ load_result = <<>>
    /\ response = NoResponse
    /\ calls = <<>>
    /\ httpRequests = 0
    /\ transformCalls = 0
    /\ loadCalls = 0
    /\ bqClients = 0
    /\ bqJobs = 0
    /\ bqWaited = 0
    /\ bqOutputRows = <<>>
    /\ last_out = NoOutcome
    /\ fetched = <<>>
    /\ error_resp = NoFetch
    /\ fetch_out = NoOutcome

\* main.py:18-42: the request is sent once and its response handled
FetchCall ==
    /\ pc = "fetch"
    /\ httpRequests' = httpRequests + 1
    /\ fetch_out' = fetch_activities(IsoFormat(AddDays(FetchWindowEnd, 0 - batch_size_days)),
                                     IsoFormat(FetchWindowEnd), DefaultLimit, fetch_in)
    /\ pc' = "fetched"
    /\ UNCHANGED <<end_date, start_date, current_start, all_records, df, load_result,
                   response, calls, transformCalls, loadCalls, bqClients, bqJobs, bqWaited,
                   bqOutputRows, last_out, fetched, error_resp, fetch_in>>

SpecFetch == InitFetch /\ [][FetchCall]_vars

(***************************************************************************)
(* transform and load_to_bigquery on any accumulated record sequence: the  *)
(* handler from the end of its batch loop.                                 *)
(***************************************************************************)
DateParts ==
    { <<>>,
      << <<"startDate", Str("2024-05-01T10:00:00")>> >>,
      << <<"startDate", Str("not a date")>> >> }

TypeParts ==
    { <<>>,
      << <<"type", Dict(<<>>)>> >>,
      << <<"type", Dict(<< <<"id", "1">> >>)>> >>,
      << <<"type", Dict(<< <<"id", "2">>, <<"name", "call">> >>)>> >> }

OrganizationParts ==
    { <<>>,
      << <<"organization", Dict(<< <<"id", "7">>, <<"name", "Acme">> >>)>> >> }

RecordUniverse ==
    { d \o t \o o : d \in DateParts, t \in TypeParts, o \in OrganizationParts }

InitTransform ==
    /\ pc = "loop"
    /\ all_records \in SeqsUpTo(RecordUniverse, MaxRecs)
    /\ end_date = FetchWindowEnd
    /\ start_date = AddDays(FetchWindowEnd, 0 - LookbackDays)
    /\ current_start = FetchWindowEnd
    /\ df = EmptyFrame
    /\ load_result = <<>>
    /\ response = NoResponse
    /\ calls = <<>>
    /\ httpRequests = 0
    /\ transformCalls = 0
    /\ loadCalls = 0
    /\ bqClients = 0
    /\ bqJobs = 0
    /\ bqWaited = 0
    /\ bqOutputRows = <<>>
    /\ last_out = NoOutcome
    /\ fetched = <<>>
    /\ error_resp = NoFetch
    /\ fetch_in = NoFetch
    /\ fetch_out = NoOutcome

NextTransform ==
    \/ TransformStep
    \/ LoadNothing
    \/ LoadJobDone
    \/ LoadJobFails
    \/ Respond

SpecTransform == InitTransform /\ [][NextTransform]_vars

(***************************************************************************)
(* Properties of the handler (specification Spec).                         *)
(***************************************************************************)
LoopFinished == pc \in {"load", "respond", "raised"} \/ (pc = "done" /\ response.code = HttpOk)

\* C1: when every fetch of an invocation succeeds, the window [end - 90 days,
\* end) is fetched in exactly 90 calls, one HTTP request each; the first call
\* starts at the window start, the last ends at the window end, each call ends
\* where the next starts (as instants and as serialized strings), no sub-window
\* is empty or longer than one day, and no sub-window is fetched twice.
C1_Windows ==
    /\ httpRequests = Len(calls)
    /\ Len(calls) <= LookbackDays
    /\ Len(calls) >= 1 =>
         /\ calls[1].start = [end_date EXCEPT !.day = @ - LookbackDays]
         /\ calls[1].start = start_date
    /\ \A i \in 1..Len(calls) :
         /\ DtLt(calls[i].start, calls[i].end)
         /\ DtLe(calls[i].end, [calls[i].start EXCEPT !.day = @ + 1])
         /\ DtLe(calls[i].end, end_date)
         /\ calls[i].start_iso.ms = calls[i].start.us \div 1000
         /\ calls[i].end_iso.ms = calls[i].end.us \div 1000
         /\ calls[i].start_iso.suffix = "Z" /\ calls[i].end_iso.suffix = "Z"
    /\ \A i \in 1..(Len(calls) - 1) :
         /\ calls[i].end = calls[i + 1].start
         /\ calls[i].end_iso = calls[i + 1].start_iso
    /\ Cardinality({ <<calls[i].start_iso, calls[i].end_iso>> : i \in 1..Len(calls) }) = Len(calls)
    /\ LoopFinished =>
         /\ Len(calls) = LookbackDays
         /\ calls[Len(calls)].end = end_date

C1_Witness ==
    /\ pc = "done"
    /\ response.code = HttpOk
    /\ Len(calls) = LookbackDays
    /\ end_date.us = 123456

FailedOnStatus == last_out.exc = "ValueError"

\* C2: when the fetch of batch k answers a status other than 200, the handler
\* returns 500 with the fetch error's payload (status code, URL and raw body of
\* that request) as body, batch k is the last fetch issued, and neither
\* transform nor the warehouse load is invoked.
C2_AbortOnStatus ==
    FailedOnStatus =>
        LET k == Len(calls) IN
        /\ pc = "done"
        /\ k >= 1 /\ httpRequests = k
        /\ calls[k].status # HttpOk
        /\ \A i \in 1..(k - 1) : calls[i].status = HttpOk
        /\ response.code = ServerError
        /\ response.body.json = "object"
        /\ response.body.value =
             [status |-> "error",
              message |-> <<calls[k].status, "Client Error for URL:",
                            [base |-> Url, start |-> calls[k].start_iso,
                             end |-> calls[k].end_iso, ignoreDeleted |-> "true",
                             limit |-> DefaultLimit]>>,
              response |-> error_resp.text]
        /\ error_resp.status_code = calls[k].status
        /\ transformCalls = 0
        /\ loadCalls = 0
        /\ bqClients = 0 /\ bqJobs = 0

C2_Witness ==
    /\ FailedOnStatus
    /\ Len(calls) = 45
    /\ calls[45].status = 403
    /\ Len(all_records) = 2
    /\ response.code = ServerError

C3_Order ==
    /\ pc \in {"idle", "loop", "load", "respond", "done", "raised"}
    /\ transformCalls <= 1
    /\ loadCalls <= 1
    /\ transformCalls = 1 =>
         /\ Len(calls) = LookbackDays
         /\ \A i \in 1..Len(calls) : calls[i].status = HttpOk
         /\ last_out.ok
         /\ calls[Len(calls)].end = end_date
    /\ loadCalls = 1 => transformCalls = 1
    /\ response.code = HttpOk =>
         /\ pc = "done"
         /\ Len(calls) = LookbackDays
         /\ last_out.ok
         /\ transformCalls = 1
         /\ loadCalls = 1
         /\ bqWaited = bqJobs
         /\ response.body.json = "object"
         /\ response.body.value.status = "success"
         /\ response.body.value.records_loaded = FrameLen(df)
         /\ response.body.value.message = load_result
         /\ load_result # <<>>

C3_Steps ==
    /\ transformCalls >= 1 => httpRequests' = httpRequests
    /\ transformCalls' # transformCalls =>
         /\ pc = "loop" /\ ~DtLt(current_start, end_date)
         /\ loadCalls = 0 /\ loadCalls' = 0
    /\ loadCalls' # loadCalls => pc = "load" /\ transformCalls = 1 /\ transformCalls' = 1
    /\ response' # response => pc' = "done"
    /\ (response' # response /\ response'.code = HttpOk) => pc = "respond" /\ loadCalls = 1

\* C3: an invocation runs COMPUTE_WINDOW, the batch fetches, TRANSFORM, LOAD,
\* RESPOND in that order: transform is called at most once and only after the
\* last batch fetch succeeded, load at most once and only after transform
\* returned, no fetch follows the start of transform, and a success response
\* (status, row count, the load's message) comes only after all batches were
\* fetched and load returned.
C3_Pipeline == [](C3_Order) /\ [][C3_Steps]_vars

C3_Witness ==
    /\ pc = "done"
    /\ response.code = HttpOk
    /\ bqJobs = 1
    /\ Len(all_records) = 2

\* C4: every 500 response of the handler is the error object {status:
\* "error", message, response} that carries the status code, the URL and the
\* raw body.
C4_Every500IsErrorObject ==
    response.code = ServerError =>
        /\ response.body.json = "object"
        /\ response.body.value.status = "error"
        /\ response.body.value.message[1] = error_resp.status_code
        /\ response.body.value.message[3].base = Url
        /\ response.body.value.response = error_resp.text

\* C10: the accumulated sequence is the concatenation of the batches' records
\* in batch order, and in a success response records_loaded is the number of
\* records the fetches returned, whatever row count the warehouse reported and
\* whether or not the load was skipped.
C10_RecordsLoaded ==
    /\ all_records = fetched
    /\ response.code = HttpOk => response.body.value.records_loaded = Len(fetched)

C10_Witness ==
    /\ response.code = HttpOk
    /\ Len(fetched) = 2
    /\ bqOutputRows = <<0>>
    /\ response.body.value.records_loaded = 2

(***************************************************************************)
(* Properties of fetch_activities (specification SpecFetch).               *)
(***************************************************************************)
ExpectedPayload ==
    [status |-> "error",
     message |-> <<fetch_in.status_code, "Client Error for URL:",
                   [base |-> Url,
                    start |-> IsoFormat(AddDays(FetchWindowEnd, 0 - 1)),
                    end |-> IsoFormat(FetchWindowEnd),
                    ignoreDeleted |-> "true", limit |-> DefaultLimit]>>,
     response |-> fetch_in.text]

FailsOnStatus == ~fetch_out.ok /\ fetch_out.exc = "ValueError"

\* C5 (as amended): fetch issues exactly one HTTP request; on every status
\* other than 200, the other 2xx statuses included, it fails with an error
\* carrying the status code, the requested URL and the raw body, and on 200
\* it does not fail on status grounds but parses the body.
C5_StatusHandling ==
    pc = "fetched" =>
        /\ httpRequests = 1
        /\ fetch_in.status_code # 200 =>
             /\ FailsOnStatus
             /\ fetch_out.args0.type = "dict"
             /\ fetch_out.args0.value = ExpectedPayload
        /\ fetch_in.status_code = 200 =>
             /\ ~FailsOnStatus
             /\ fetch_out.ok \/ fetch_out.exc = "JSONDecodeError"

\* C5 (as claimed): on every non-2xx status fetch fails with the error, and on
\* every 2xx status it does not fail on status grounds.
C5_Original ==
    pc = "fetched" =>
        /\ httpRequests = 1
        /\ fetch_in.status_code \notin 200..299 => FailsOnStatus
        /\ fetch_in.status_code \in 200..299 => ~FailsOnStatus

C5_Witness ==
    /\ pc = "fetched"
    /\ fetch_in.status_code = 204
    /\ fetch_in.text = <<"OBJ_A", "LF", "OBJ_B">>
    /\ FailsOnStatus

\* The lines of a body, as pairs <<first, last>> of positions: the maximal
\* runs without a newline.
LineSpans(text) ==
    { sp \in (1..(Len(text) + 1)) \X (0..Len(text)) :
        /\ sp[2] >= sp[1] - 1
        /\ sp[1] = 1 \/ text[sp[1] - 1] = "LF"
        /\ sp[2] = Len(text) \/ text[sp[2] + 1] = "LF"
        /\ \A k \in sp[1]..sp[2] : text[k] # "LF" }

SpanIsEmpty(sp) == sp[2] < sp[1]

SpanIsBlank(text, sp) == \A k \in sp[1]..sp[2] : text[k] = "WS"

\* one JSON object, with nothing but whitespace around it
SpanIsRecord(text, sp) ==
    /\ Cardinality({ k \in sp[1]..sp[2] : text[k] \in ObjTokens }) = 1
    /\ \A k \in sp[1]..sp[2] : text[k] \in ObjTokens \cup {"WS"}

\* a blank line with nothing but blank lines before it, or after it
SpanIsOuterBlank(text, sp) ==
    /\ SpanIsBlank(text, sp)
    /\ \/ \A k \in 1..sp[1] : IsSpace(text[k])
       \/ \A k \in sp[2]..Len(text) : IsSpace(text[k])

RECURSIVE ObjectsIn(_)
ObjectsIn(text) ==
    IF text = <<>> THEN <<>>
    ELSE IF Head(text) \in ObjTokens THEN <<JsonObject(Head(text))>> \o ObjectsIn(Tail(text))
    ELSE ObjectsIn(Tail(text))

\* C6: on a 200 response fetch succeeds exactly when every line of the body
\* is empty, a leading or trailing blank line, or one JSON record; it then
\* returns one record per line that holds a record, each the parse of its
\* line, in the order of the lines; empty lines (an empty body included) give
\* no record and no failure.
C6_OneRecordPerLine ==
    (pc = "fetched" /\ fetch_in.status_code = 200) =>
        LET text == fetch_in.text
            spans == LineSpans(text)
        IN  /\ fetch_out.ok <=>
                 \A sp \in spans :
                     SpanIsEmpty(sp) \/ SpanIsRecord(text, sp) \/ SpanIsOuterBlank(text, sp)
            /\ fetch_out.ok =>
                 /\ Len(fetch_out.records) =
                      Cardinality({ sp \in spans : ~SpanIsBlank(text, sp) })
                 /\ fetch_out.records = ObjectsIn(text)

C6_Witness ==
    /\ pc = "fetched"
    /\ fetch_in = [status_code |-> 200, text |-> <<"OBJ_A", "LF", "LF", "OBJ_B">>]
    /\ fetch_out.ok
    /\ fetch_out.records = <<ActivityA, ActivityB>>

(***************************************************************************)
(* Properties of transform and load_to_bigquery (specification             *)
(* SpecTransform).                                                         *)
(***************************************************************************)
Transformed == transformCalls = 1

Cell(frame, col, i) == Column(frame, col)[i]

\* the timestamp record i gives for a date field, read off the record
DateOf(rec, col) ==
    IF HasKey(rec, col) /\ Get(rec, col).s \in ValidDateTexts
    THEN Timestamp(Get(rec, col).s)
    ELSE NaT

\* C7: transform(records) has exactly len(records) rows, whatever fields the
\* records hold and however many nested fields are expanded (none for the
\* empty sequence), and row i is the row of record i.
C7_RowCount ==
    Transformed =>
        /\ FrameLen(df) = Len(all_records)
        /\ Len(df.data) = Len(df.columns)
        /\ \A j \in 1..Len(df.columns) : Len(df.data[j]) = Len(all_records)
        /\ HasColumn(df, "startDate") <=>
             \E i \in 1..Len(all_records) : HasKey(all_records[i], "startDate")
        /\ HasColumn(df, "startDate") =>
             \A i \in 1..Len(all_records) :
                 Cell(df, "startDate", i) = DateOf(all_records[i], "startDate")

C7_Witness ==
    /\ Transformed
    /\ Len(all_records) = 2
    /\ all_records[1] = <<>>
    /\ HasKey(all_records[2], "type") /\ HasKey(all_records[2], "organization")
    /\ HasKey(all_records[2], "startDate")
    /\ FrameLen(df) = 2

FieldPresent(f) == \E i \in 1..Len(all_records) : HasKey(all_records[i], f)

\* the sub-fields some record holds under the nested field f
SubFields(f) ==
    { sub \in {"id", "name"} :
        \E i \in 1..Len(all_records) :
            HasKey(all_records[i], f) /\ HasKey(Get(all_records[i], f).d, sub) }

\* C8: for each nested field f some record holds, transform removes column f
\* and adds the columns f_<subfield>; row i holds record i's own value of
\* f.<subfield>, and null when record i lacks f (or that sub-field): a record
\* without f neither fails the call nor moves another row's values.
C8_NestedAligned ==
    Transformed =>
        \A f \in {"type", "organization"} :
            FieldPresent(f) =>
                /\ ~HasColumn(df, f)
                /\ \A sub \in SubFields(f) :
                     /\ HasColumn(df, f \o "_" \o sub)
                     /\ \A i \in 1..Len(all_records) :
                          Cell(df, f \o "_" \o sub, i) =
                              IF /\ HasKey(all_records[i], f)
                                 /\ HasKey(Get(all_records[i], f).d, sub)
                              THEN Str(Get(Get(all_records[i], f).d, sub))
                              ELSE NaN

C8_Witness ==
    /\ Transformed
    /\ Len(all_records) = 2
    /\ ~HasKey(all_records[1], "organization")
    /\ HasKey(all_records[2], "organization")
    /\ HasColumn(df, "organization_name")
    /\ Cell(df, "organization_name", 1) = NaN
    /\ Cell(df, "organization_name", 2) = Str("Acme")
    /\ Cell(df, "organization_id", 2) = Str("7")

LoadCalled == loadCalls = 1

\* C9 (as amended): load invokes the warehouse client exactly when the dataset
\* has at least one row and at least one column; otherwise it returns the "no
\* data" sentinel without creating a client or starting a job; when it does, it
\* starts exactly one load job and waits for it, and once the job has finished
\* returns the summary with the row count the destination reported.
C9_LoadIffNotEmpty ==
    LoadCalled =>
        /\ bqClients >= 1 <=> (FrameLen(df) >= 1 /\ Len(df.columns) >= 1)
        /\ bqJobs = bqClients
        /\ bqClients <= 1
        /\ bqClients = 0 => load_result = NoDataMessage /\ bqWaited = 0
        /\ bqClients = 1 =>
             \/ pc = "raised" /\ bqWaited = 0 /\ load_result = <<>>
             \/ /\ pc \in {"respond", "done"}
                /\ bqWaited = 1
                /\ Len(bqOutputRows) = 1
                /\ load_result = <<"Carregado", bqOutputRows[1], "linhas na tabela", TableId>>

\* C9 (as claimed): load invokes the warehouse client exactly when the dataset
\* has at least one row.
C9_Original ==
    LoadCalled => (bqClients >= 1 <=> FrameLen(df) >= 1)

C9_Witness ==
    /\ LoadCalled
    /\ FrameLen(df) = 2
    /\ Len(df.columns) = 0
    /\ bqClients = 0
    /\ load_result = NoDataMessage

====
